---- MODULE Spec2Model ----
(***************************************************************************)
(* Branch and bound search of BBTreeNode.bbsolve (bab_starter.py).         *)
(*                                                                         *)
(* Numbers are rationals with denominator D, stored as integers counting   *)
(* units of 1/D.  The problems are the two-variable programs               *)
(*     maximise z  subject to  z == 2x + y,  lx <= x <= ux,                *)
(*                             ly <= y <= uy,  x + y <= c                  *)
(* with vars = [x, y, z].  Every vertex of such a region, also after any   *)
(* number of integer bounds were appended by branching, lies on the 1/D    *)
(* grid, and the objective is parallel to no edge, so the relaxation has   *)
(* a unique optimum that is a grid point.                                  *)
(***************************************************************************)
EXTENDS Integers, Sequences, FiniteSets, TLC

\* ---------------------------------------------------------------- bounds
D == 4            \* grid denominator: values are multiples of 1/D
MaxU == 6         \* ux, uy and c range over 0 .. MaxU, in units of 1/D
MaxLow == 1       \* lx and ly range over 0 .. MaxLow, in units of 1/D
MaxHeap == 24     \* the loop is followed while len(heap) <= MaxHeap
MaxCalls == 2     \* number of successive bbsolve calls in one process

\* ------------------------------------------------------- program constants
InitialBest == -1000000   \* stands for -1e20, below every objective value
TolNum == 1               \* is_integral tolerance 1e-4 = TolNum / TolDen
TolDen == 10000
None == -1                \* value of a variable that was never assigned

VARIABLES
    input,      \* parameters [lx, ux, ly, uy, c] of the problem bbsolve is called on
    pc,         \* "idle", "loop", "done" (returned), "raised" (exception left bbsolve)
    heap,       \* the list `heap` of entries [prio, seq, node]
    iterator,   \* the index `iterator` (0-based as in the code)
    res,        \* the local `res`: objective value of the root's Solution
    bestres,    \* the local `bestres`
    value,      \* .value of the shared variables [x, y, z] (root.vars)
    counter,    \* next number of the module-level itertools.count()
    calls,      \* number of bbsolve calls started so far
    trace,      \* observation: nodes processed by the running call, in order
    firstRun,   \* observation: outcome of the first call
    last,       \* observation: what the latest loop iteration read and did
    seen,       \* observation: configurations the running call's loop was in
    solved      \* observation: nodes the running call called solve() on, in order

vars == <<input, pc, heap, iterator, res, bestres, value, counter, calls, trace,
          firstRun, last, seen, solved>>

\* no feasible value of x or y exceeds the largest upper bound
Grid == 0 .. MaxU

\* ------------------------------------------------------------- arithmetic
Abs(a) == IF a < 0 THEN -a ELSE a

Floor(v) == v \div D                 \* math.floor, result in units of 1

Ceil(v) == (v + D - 1) \div D        \* math.ceil, result in units of 1

\* round(): nearest integer, halves go to the even one; result in units of 1/D
Round(v) ==
    LET r == v % D
        f == v \div D
    IN  IF 2 * r < D THEN f * D
        ELSE IF 2 * r > D THEN (f + 1) * D
        ELSE IF f % 2 = 0 THEN f * D ELSE (f + 1) * D

SetMax(S) == CHOOSE m \in S : \A k \in S : k <= m

SetMin(S) == CHOOSE m \in S : \A k \in S : m <= k

Min(a, b) == IF a < b THEN a ELSE b

\* ------------------------------------------------------ relaxation solver
\* A constraint is [cx, cy, cz, op, rhs]: cx*x + cy*y + cz*z  op  rhs, with
\* op one of "le", "ge", "eq" and rhs in units of 1/D.
Lin(cx, cy, cz, op, rhs) == [cx |-> cx, cy |-> cy, cz |-> cz, op |-> op, rhs |-> rhs]

\* self.constraints of the root, in the style of the class docstring:
\* [z == 2x+y, x >= lx, x <= ux, y >= ly, y <= uy, x+y <= c]
RootConstraints(inp) ==
    << Lin(2, 1, -1, "eq", 0),
       Lin(1, 0, 0, "ge", inp.lx),
       Lin(1, 0, 0, "le", inp.ux),
       Lin(0, 1, 0, "ge", inp.ly),
       Lin(0, 1, 0, "le", inp.uy),
       Lin(1, 1, 0, "le", inp.c) >>

Satisfies(k, p) ==
    LET lhs == k.cx * p[1] + k.cy * p[2] + k.cz * p[3]
    IN  CASE k.op = "le" -> lhs <= k.rhs
          [] k.op = "ge" -> lhs >= k.rhs
          [] OTHER       -> lhs = k.rhs

Feasible(cons, p) == \A i \in 1 .. Len(cons) : Satisfies(cons[i], p)

\* right-hand sides of the constraints of cons of the shape cx*x + cy*y op rhs
Rhs(cons, cx, cy, op) ==
    {cons[i].rhs : i \in {j \in 1 .. Len(cons) :
        cons[j].cx = cx /\ cons[j].cy = cy /\ cons[j].cz = 0 /\ cons[j].op = op}}

\* prob.solve() with objective ("max", z): the optimum of the relaxation, or a
\* failure (picos SolutionFailure, a RuntimeError) when the region is empty.
\* A failed solve assigns nothing to the variables.
\* The region is lox <= x <= hix, loy <= y <= hiy, x + y <= cap.  For a given
\* x the best y is Min(hiy, cap - x), and 2x + Min(hiy, cap - x) grows with x,
\* so the optimum takes the largest x that leaves room for y >= loy.
Solve(cons) ==
    LET lox == SetMax(Rhs(cons, 1, 0, "ge"))
        hix == SetMin(Rhs(cons, 1, 0, "le"))
        loy == SetMax(Rhs(cons, 0, 1, "ge"))
        hiy == SetMin(Rhs(cons, 0, 1, "le"))
        cap == SetMin(Rhs(cons, 1, 1, "le"))
        x   == Min(hix, cap - loy)
        y   == Min(hiy, cap - x)
    IN  IF lox > hix \/ loy > hiy \/ lox + loy > cap
        THEN [ok |-> FALSE, val |-> <<None, None, None>>]
        ELSE [ok |-> TRUE, val |-> <<x, y, 2 * x + y>>]

\* ------------------------------------------------------------ BBTreeNode
\* BBTreeNode(vars, constraints, objective, prob): the constraints of the node's
\* problem, the variable list and the objective; the variables are named, the
\* same name is the same object
Node(cons) == [cons |-> cons, vars |-> <<"x", "y", "z">>, objective |-> "z"]

\* is_integral with the slice vars[:-2]: the last two variables are left out
IsIntegralShortSlice(v) ==
    \A i \in 1 .. Len(v) - 2 :
        ~ (v[i] = None \/ Abs(Round(v[i]) - v[i]) * TolDen > TolNum * D)

\* is_integral: every variable but the last has a value within 1e-4 of an integer
IsIntegral(v) ==
    \A i \in 1 .. Len(v) - 1 :
        ~ (v[i] = None \/ Abs(Round(v[i]) - v[i]) * TolDen > TolNum * D)

\* lines 41-51: a node with a clone of the problem (its own constraint
\* sequence, equal to the node's) and the node's vars and objective
DeepCopy(node) ==
    [cons |-> node.cons, vars |-> node.vars, objective |-> node.objective]

\* branch_floor with the bound one unit too low: branch_var <= floor(value) - 1
BranchFloorBelow(node, i, v) ==
    [DeepCopy(node) EXCEPT
        !.cons = Append(@, IF i = 1 THEN Lin(1, 0, 0, "le", (Floor(v[i]) - 1) * D)
                                    ELSE Lin(0, 1, 0, "le", (Floor(v[i]) - 1) * D))]

\* __deepcopy__ then add_constraint(branch_var <= math.floor(branch_var.value))
BranchFloor(node, i, v) ==
    [DeepCopy(node) EXCEPT
        !.cons = Append(@, IF i = 1 THEN Lin(1, 0, 0, "le", Floor(v[i]) * D)
                                    ELSE Lin(0, 1, 0, "le", Floor(v[i]) * D))]

\* __deepcopy__ then add_constraint(branch_var >= math.ceil(branch_var.value))
BranchCeil(node, i, v) ==
    [DeepCopy(node) EXCEPT
        !.cons = Append(@, IF i = 1 THEN Lin(1, 0, 0, "ge", Ceil(v[i]) * D)
                                    ELSE Lin(0, 1, 0, "ge", Ceil(v[i]) * D))]

\* ------------------------------------------------------------------ heap
\* the comparison of a heap that keeps its greatest entry first
EntryLessMax(a, b) == a.prio > b.prio \/ (a.prio = b.prio /\ a.seq > b.seq)

\* tuple comparison of (res, seq, node) entries; seq numbers are distinct
EntryLess(a, b) == a.prio < b.prio \/ (a.prio = b.prio /\ a.seq < b.seq)

Swap(h, i, j) == [h EXCEPT ![i] = h[j], ![j] = h[i]]

\* heapq._siftdown: move the entry at 1-based position pos up towards the root
RECURSIVE SiftUp(_, _)
SiftUp(h, pos) ==
    IF pos = 1 THEN h
    ELSE LET parent == pos \div 2
         IN  IF EntryLess(h[pos], h[parent]) THEN SiftUp(Swap(h, pos, parent), parent)
             ELSE h

HeapPush(h, e) == SiftUp(Append(h, e), Len(h) + 1)

Entry(prio, seq, node) == [prio |-> prio, seq |-> seq, node |-> node]

\* --------------------------------------------------------------- bbsolve
\* lines 147-157: scan the variables but the last, keep the first one whose
\* distance to round() is strictly greater than all before; 0 = none selected
RECURSIVE SelectLoop(_, _, _, _)
SelectLoop(v, i, maximum_tolerance, selection_variable) ==
    IF i > Len(v) - 1 THEN selection_variable
    ELSE LET tolerance == Abs(v[i] - Round(v[i]))
         IN  IF maximum_tolerance < tolerance
             THEN SelectLoop(v, i + 1, tolerance, i)
             ELSE SelectLoop(v, i + 1, maximum_tolerance, selection_variable)

SelectVariable(v) == SelectLoop(v, 1, 0, 0)

\* line 141: bestnode_vars[-1] < root.vars[-1] compares the variable z with
\* itself; on picos variables `<` builds the constraint z <= z, an object,
\* which is true in a boolean context whatever the values are
IncumbentTest(best, cur) == TRUE

\* the branching step with both children built from root, not from the node at
\* heap[iterator]
BranchStepFromRoot(h, it, v, cnt, r) ==
    LET node  == h[1].node
        sel   == SelectVariable(v)
        lower == BranchFloor(node, sel, v)
        s1    == Solve(lower.cons)
        h1    == IF s1.ok THEN HeapPush(h, Entry(r, cnt, lower)) ELSE h
        c1    == IF s1.ok THEN cnt + 1 ELSE cnt
        v1    == IF s1.ok THEN s1.val ELSE v
        upper == BranchCeil(node, sel, v1)
        s2    == Solve(upper.cons)
        h2    == IF s2.ok THEN HeapPush(h1, Entry(r, c1, upper)) ELSE h1
        c2    == IF s2.ok THEN c1 + 1 ELSE c1
        v2    == IF s2.ok THEN s2.val ELSE v1
    IN  [heap |-> h2, value |-> v2, counter |-> c2, sel |-> sel,
         lower |-> lower, lowerOk |-> s1.ok, mid |-> v1,
         upper |-> upper, upperOk |-> s2.ok]

\* the branching step when __deepcopy__ hands the node's own problem to the
\* copy: a bound added to a child is added to the one problem that the parent
\* and both children hold
BranchStepSharedProb(h, it, v, cnt, r) ==
    LET node  == h[it + 1].node
        sel   == SelectVariable(v)
        lower == BranchFloor(node, sel, v)
        s1    == Solve(lower.cons)
        hp    == [h EXCEPT ![it + 1].node = lower]
        h1    == IF s1.ok THEN HeapPush(hp, Entry(r, cnt, lower)) ELSE hp
        c1    == IF s1.ok THEN cnt + 1 ELSE cnt
        v1    == IF s1.ok THEN s1.val ELSE v
        upper == BranchCeil(lower, sel, v1)
        s2    == Solve(upper.cons)
        hq    == [j \in 1 .. Len(h1) |->
                     IF h1[j].node = lower THEN [h1[j] EXCEPT !.node = upper]
                     ELSE h1[j]]
        h2    == IF s2.ok THEN HeapPush(hq, Entry(r, c1, upper)) ELSE hq
        c2    == IF s2.ok THEN c1 + 1 ELSE c1
        v2    == IF s2.ok THEN s2.val ELSE v1
    IN  [heap |-> h2, value |-> v2, counter |-> c2, sel |-> sel,
         lower |-> lower, lowerOk |-> s1.ok, mid |-> v1,
         upper |-> upper, upperOk |-> s2.ok]

\* the branching step with both children under one try: a failure of the floor
\* child's solve leaves the step, the ceil child is not solved and not pushed
BranchStepOneTry(h, it, v, cnt, r) ==
    LET node  == h[it + 1].node
        sel   == SelectVariable(v)
        lower == BranchFloor(node, sel, v)
        s1    == Solve(lower.cons)
        h1    == IF s1.ok THEN HeapPush(h, Entry(r, cnt, lower)) ELSE h
        c1    == IF s1.ok THEN cnt + 1 ELSE cnt
        v1    == IF s1.ok THEN s1.val ELSE v
        upper == BranchCeil(node, sel, v1)
        s2    == IF s1.ok THEN Solve(upper.cons) ELSE [ok |-> FALSE, val |-> v1]
        h2    == IF s2.ok THEN HeapPush(h1, Entry(r, c1, upper)) ELSE h1
        c2    == IF s2.ok THEN c1 + 1 ELSE c1
        v2    == IF s2.ok THEN s2.val ELSE v1
    IN  [heap |-> h2, value |-> v2, counter |-> c2, sel |-> sel,
         lower |-> lower, lowerOk |-> s1.ok, mid |-> v1,
         upper |-> upper, upperOk |-> s2.ok]

\* lines 146-193 for the node at heap[iterator], reading the shared values v:
\* the heap, the shared values and the counter after both children were handled
BranchStep(h, it, v, cnt, r) ==
    LET node  == h[it + 1].node
        sel   == SelectVariable(v)
        lower == BranchFloor(node, sel, v)
        s1    == Solve(lower.cons)
        h1    == IF s1.ok THEN HeapPush(h, Entry(r, cnt, lower)) ELSE h
        c1    == IF s1.ok THEN cnt + 1 ELSE cnt
        v1    == IF s1.ok THEN s1.val ELSE v
        upper == BranchCeil(node, sel, v1)
        s2    == Solve(upper.cons)
        h2    == IF s2.ok THEN HeapPush(h1, Entry(r, c1, upper)) ELSE h1
        c2    == IF s2.ok THEN c1 + 1 ELSE c1
        v2    == IF s2.ok THEN s2.val ELSE v1
    IN  [heap |-> h2, value |-> v2, counter |-> c2, sel |-> sel,
         lower |-> lower, lowerOk |-> s1.ok, mid |-> v1,
         upper |-> upper, upperOk |-> s2.ok]

\* ---------------------------------------------------- loop configuration
\* What the rest of the loop depends on: the entries from heap[iterator] on, in
\* list order, each with the region of its node, and the shared values, res
\* and bestres.  A constraint that occurs twice in a node bounds the same
\* region as one occurrence; a child adds one constraint to its parent's.

\* cons without its last constraint when that one occurs earlier in cons
Distinct(cons) ==
    IF \E i \in 1 .. Len(cons) - 1 : cons[i] = cons[Len(cons)]
    THEN SubSeq(cons, 1, Len(cons) - 1)
    ELSE cons

\* the constraints of cons, every one once, in order of first occurrence
RECURSIVE DistinctAll(_)
DistinctAll(cons) ==
    IF cons = <<>> THEN <<>>
    ELSE Distinct(Append(DistinctAll(SubSeq(cons, 1, Len(cons) - 1)), cons[Len(cons)]))

Pending(h, it) ==
    [i \in 1 .. Len(h) - it |-> DistinctAll(h[it + i].node.cons)]

Config(h, it, v, r, b) ==
    [pending |-> Pending(h, it), value |-> v, res |-> r, bestres |-> b]

\* ------------------------------------------------------------ the machine
Inputs == [lx : 0 .. MaxLow, ux : Grid, ly : 0 .. MaxLow, uy : Grid, c : Grid]

NoValue == <<None, None, None>>

NoStep == [kind |-> "none", node |-> Node(<<>>), read |-> NoValue, sel |-> 0,
           lower |-> Node(<<>>), lowerOk |-> FALSE, mid |-> NoValue,
           upper |-> Node(<<>>), upperOk |-> FALSE, pushed |-> 0,
           prev |-> InitialBest]

NoRun == [bestres |-> InitialBest, value |-> NoValue, trace |-> <<>>]

Init ==
    /\ input \in Inputs
    /\ pc = "idle"
    /\ heap = <<>>
    /\ iterator = 0
    /\ res = 0
    /\ bestres = InitialBest
    /\ value = NoValue
    /\ counter = 0
    /\ calls = 0
    /\ trace = <<>>
    /\ firstRun = NoRun
    /\ last = NoStep
    /\ seen = {}
    /\ solved = <<>>

\* bbsolve that solves the root only while the variables have no value: a later
\* call starts from the values the call before left in the shared variables
CallKeepsValues ==
    /\ pc \in {"idle", "done"}
    /\ calls < MaxCalls
    /\ calls' = calls + 1
    /\ LET root == Node(RootConstraints(input))
           s    == Solve(root.cons)
       IN  IF s.ok
           THEN /\ pc' = "loop"
                /\ res' = s.val[3]
                /\ value' = IF value = NoValue THEN s.val ELSE value
                /\ heap' = <<Entry(s.val[3], counter, root)>>
                /\ counter' = counter + 1
                /\ bestres' = InitialBest
                /\ iterator' = 0
                /\ trace' = <<>>
                /\ last' = NoStep
                /\ seen' = {}
                /\ solved' = <<root>>
           ELSE /\ pc' = "raised"
                /\ UNCHANGED <<res, value, heap, counter, bestres, iterator, trace,
                               last, seen, solved>>
    /\ UNCHANGED <<input, firstRun>>

\* lines 121-131: build and solve the root, put it on the heap.  The solve is
\* outside any try: its failure leaves bbsolve as an exception.
Call ==
    /\ pc \in {"idle", "done"}
    /\ calls < MaxCalls
    /\ calls' = calls + 1
    /\ LET root == Node(RootConstraints(input))
           s    == Solve(root.cons)
       IN  IF s.ok
           THEN /\ pc' = "loop"
                /\ res' = s.val[3]
                /\ value' = s.val
                /\ heap' = <<Entry(s.val[3], counter, root)>>
                /\ counter' = counter + 1
                /\ bestres' = InitialBest
                /\ iterator' = 0
                /\ trace' = <<>>
                /\ last' = NoStep
                /\ seen' = {}
                /\ solved' = <<root>>
           ELSE /\ pc' = "raised"
                /\ UNCHANGED <<res, value, heap, counter, bestres, iterator, trace,
                               last, seen, solved>>
    /\ UNCHANGED <<input, firstRun>>

\* line 136: heap[iterator][2] is a BBTreeNode, never equal to one of the two
\* strings, so the test passes for every entry and is no guard of the model

\* the integral case storing the processed node's own relaxed objective
\* without comparing it with the incumbent
IntegralOwnObjective ==
    /\ pc = "loop"
    /\ iterator < Len(heap)
    /\ IsIntegral(value)
    /\ bestres' = Solve(heap[iterator + 1].node.cons).val[3]
    /\ iterator' = iterator + 1
    /\ trace' = Append(trace, [node |-> heap[iterator + 1].node, kind |-> "integral"])
    /\ last' = [NoStep EXCEPT !.kind = "integral", !.node = heap[iterator + 1].node,
                              !.read = value, !.prev = bestres]
    /\ seen' = seen \cup {Config(heap, iterator, value, res, bestres)}
    /\ UNCHANGED <<input, pc, heap, res, value, counter, calls, firstRun, solved>>

\* lines 132-143, 196: the shared values are integral
Integral ==
    /\ pc = "loop"
    /\ iterator < Len(heap)
    /\ IsIntegral(value)
    /\ bestres' = IF IncumbentTest(Len(value), Len(value)) THEN res ELSE bestres
    /\ iterator' = iterator + 1
    /\ trace' = Append(trace, [node |-> heap[iterator + 1].node, kind |-> "integral"])
    /\ last' = [NoStep EXCEPT !.kind = "integral", !.node = heap[iterator + 1].node,
                              !.read = value, !.prev = bestres]
    /\ seen' = seen \cup {Config(heap, iterator, value, res, bestres)}
    /\ UNCHANGED <<input, pc, heap, res, value, counter, calls, firstRun, solved>>

\* the branching step with `iterator += 1` in the integral case only: the scan
\* stays on the entry it branched
BranchKeepsIterator ==
    /\ pc = "loop"
    /\ iterator < Len(heap)
    /\ ~ IsIntegral(value)
    /\ Len(heap) + 2 <= MaxHeap
    /\ LET o == BranchStep(heap, iterator, value, counter, res)
       IN  /\ heap' = o.heap
           /\ value' = o.value
           /\ counter' = o.counter
           /\ last' = [kind |-> "branch", node |-> heap[iterator + 1].node,
                       read |-> value, sel |-> o.sel,
                       lower |-> o.lower, lowerOk |-> o.lowerOk, mid |-> o.mid,
                       upper |-> o.upper, upperOk |-> o.upperOk,
                       pushed |-> Len(o.heap) - Len(heap), prev |-> bestres]
           /\ solved' = solved \o <<o.lower, o.upper>>
    /\ iterator' = iterator
    /\ trace' = Append(trace, [node |-> heap[iterator + 1].node, kind |-> "branch"])
    /\ seen' = seen \cup {Config(heap, iterator, value, res, bestres)}
    /\ UNCHANGED <<input, pc, res, bestres, calls, firstRun>>

\* lines 132-136, 146-196: the shared values are not integral
Branch ==
    /\ pc = "loop"
    /\ iterator < Len(heap)
    /\ ~ IsIntegral(value)
    /\ Len(heap) + 2 <= MaxHeap
    /\ LET o == BranchStep(heap, iterator, value, counter, res)
       IN  /\ heap' = o.heap
           /\ value' = o.value
           /\ counter' = o.counter
           /\ last' = [kind |-> "branch", node |-> heap[iterator + 1].node,
                       read |-> value, sel |-> o.sel,
                       lower |-> o.lower, lowerOk |-> o.lowerOk, mid |-> o.mid,
                       upper |-> o.upper, upperOk |-> o.upperOk,
                       pushed |-> Len(o.heap) - Len(heap), prev |-> bestres]
           /\ solved' = solved \o <<o.lower, o.upper>>
    /\ iterator' = iterator + 1
    /\ trace' = Append(trace, [node |-> heap[iterator + 1].node, kind |-> "branch"])
    /\ seen' = seen \cup {Config(heap, iterator, value, res, bestres)}
    /\ UNCHANGED <<input, pc, res, bestres, calls, firstRun>>

\* lines 132, 198-199: the scan reached the end of the list
Return ==
    /\ pc = "loop"
    /\ iterator >= Len(heap)
    /\ pc' = "done"
    /\ firstRun' = IF calls = 1
                   THEN [bestres |-> bestres, value |-> value, trace |-> trace]
                   ELSE firstRun
    /\ UNCHANGED <<input, heap, iterator, res, bestres, value, counter, calls, trace,
                   last, seen, solved>>

Next == Call \/ Integral \/ Branch \/ Return

Spec == Init /\ [][Next]_vars

\* ------------------------------------------------------------ properties
\* integer points of the region of the original constraints
IntegerPoints(inp) ==
    {p \in {<<x, y, 2 * x + y>> : x \in {g \in Grid : g % D = 0},
                                  y \in {g \in Grid : g % D = 0}} :
        Feasible(RootConstraints(inp), p)}

\* the real-valued region of the original constraints is not empty
RegionNonempty(inp) ==
    \E x \in Grid, y \in Grid : Feasible(RootConstraints(inp), <<x, y, 2 * x + y>>)

\* x is within 1e-4 of an integer
NearInteger(x) ==
    LET r == x % D IN Min(r, D - r) * TolDen <= TolNum * D

\* the optimum of the relaxation of a node, with its status
Own(node) == Solve(node.cons)

\* the configuration the loop is in
Here == Config(heap, iterator, value, res, bestres)

\* C1: when bbsolve returns on a problem that has an integer point, bestres is
\* the largest objective value over the integer points of the original
\* constraints (every region of the model is bounded).
C1_Optimum ==
    (pc = "done" /\ IntegerPoints(input) # {})
        => bestres = SetMax({p[3] : p \in IntegerPoints(input)})

\* C2: when bbsolve returns with an incumbent, the values of the variables at
\* return time are within 1e-4 of integers for x and y and satisfy every
\* original constraint.
C2_Sound ==
    (pc = "done" /\ bestres # InitialBest)
        => /\ \A i \in 1 .. Len(value) - 1 : NearInteger(value[i])
           /\ Feasible(RootConstraints(input), value)

C2_Witness ==
    /\ pc = "done"
    /\ bestres # InitialBest
    /\ Len(heap) > 1
    /\ \E i \in 1 .. Len(trace) : trace[i].kind = "branch"

\* C3: on a problem whose real region is not empty and holds no integer point,
\* bbsolve ends and returns with bestres at its initial value: the incumbent
\* is never set, and the loop is never twice in the same configuration (a
\* loop that comes back to a configuration repeats its steps for ever).
C3_NoSolutionResult ==
    (RegionNonempty(input) /\ IntegerPoints(input) = {} /\ pc \in {"loop", "done"})
        => /\ bestres = InitialBest
           /\ (iterator < Len(heap) => Here \notin seen)

\* C4: the loop terminates (every region of the model is bounded): it is never
\* twice in the same configuration, since from a configuration it was in
\* before it repeats the steps taken since then, without end.
C4_Terminates ==
    (pc = "loop" /\ iterator < Len(heap)) => Here \notin seen

\* C5: a later call of bbsolve on the same problem in the same process returns
\* the same bestres and the same values and processes the same nodes in the
\* same order as the first call.
C5_Deterministic ==
    (pc = "done" /\ calls >= 2)
        => /\ bestres = firstRun.bestres
           /\ value = firstRun.value
           /\ trace = firstRun.trace

C5_Witness ==
    /\ pc = "done"
    /\ calls = 2
    /\ heap[1].seq > 0
    /\ Len(trace) > 1
    /\ \E i \in 1 .. Len(trace) : trace[i].kind = "branch"

\* C6: no failure of a relaxation solve, the root's included, leaves bbsolve
\* as an exception.
C6_NoErrorSurfaced == pc # "raised"

\* C7: no step of the loop makes bestres smaller.
C7_Monotone == [][pc = "loop" => bestres' >= bestres]_vars

C7_Witness ==
    /\ last.kind = "integral"
    /\ last.prev # InitialBest
    /\ bestres >= last.prev

\* C8: an iteration replaces the incumbent only when the processed node's own
\* relaxation is integral with an objective strictly greater than the best so
\* far (or there is none yet); then bestres and the assignment become that
\* node's; in every other case bestres is left as it was.
C8_ConsiderRule ==
    last.kind # "none"
        => LET own == Own(last.node)
           IN  IF own.ok /\ IsIntegral(own.val)
                  /\ (last.prev = InitialBest \/ own.val[3] > last.prev)
               THEN bestres = own.val[3] /\ value = own.val
               ELSE bestres = last.prev

\* C9: the values an iteration reads to classify its node and to pick the
\* branching variable are the optimum of that node's own relaxation.
C9_ReadsOwnRelaxation ==
    last.kind # "none" => last.read = Own(last.node).val

\* C10: in a branching step on the variable v with value f, f is not an
\* integer, the floor child gets v <= floor(f) and the ceil child v >= ceil(f)
\* from that same f, so the ceil bound is the floor bound plus one.
C10_SameValue ==
    last.kind = "branch"
        => LET f  == last.read[last.sel]
               lo == last.lower.cons[Len(last.lower.cons)]
               up == last.upper.cons[Len(last.upper.cons)]
           IN  /\ f % D # 0
               /\ lo.op = "le" /\ lo.rhs = Floor(f) * D
               /\ up.op = "ge" /\ up.rhs = Ceil(f) * D
               /\ up.rhs = lo.rhs + D

\* integer points of the region of a node
NodeIntegerPoints(node) ==
    {p \in {<<x, y, 2 * x + y>> : x \in {g \in Grid : g % D = 0},
                                  y \in {g \in Grid : g % D = 0}} :
        Feasible(node.cons, p)}

\* C11: after every branching step, every integer point of the region of the
\* branched node is in the region of the floor child or in the region of the
\* ceil child: no integer point is excluded by both added bounds.
C11_Covers ==
    last.kind = "branch"
        => \A p \in NodeIntegerPoints(last.node) :
              Feasible(last.lower.cons, p) \/ Feasible(last.upper.cons, p)

\* a branching step on a node that has an integer point the floor bound
\* excludes, kept by the ceil child alone
C11_Witness ==
    /\ last.kind = "branch"
    /\ \E p \in NodeIntegerPoints(last.node) : ~ Feasible(last.lower.cons, p)

\* number of entries of the heap that hold the node
Count(h, node) == Cardinality({i \in 1 .. Len(h) : h[i].node = node})

\* C12: no node whose relaxation fails is on the heap or was processed; after
\* a branching step each of the two children is on the heap once when its
\* relaxation has an optimum and not at all when it fails, whatever the
\* outcome of the other child.
C12_PrunedOrPushed ==
    /\ \A i \in 1 .. Len(heap) : Own(heap[i].node).ok
    /\ \A i \in 1 .. Len(trace) : Own(trace[i].node).ok
    /\ last.kind = "branch"
          => \A child \in {last.lower, last.upper} :
                Count(heap, child) = IF Own(child).ok THEN 1 ELSE 0

\* a branching step whose floor child fails and whose ceil child is pushed
C12_Witness ==
    /\ last.kind = "branch"
    /\ ~ Own(last.lower).ok
    /\ Own(last.upper).ok
    /\ Count(heap, last.upper) = 1

\* the entries that were on the heap and not yet processed when the step that
\* `last` describes began, the processed one first
PendingBefore == iterator .. Len(heap) - last.pushed

\* C13: the node a step processes has the greatest relaxed objective among the
\* entries not yet processed when the step began, and among those with that
\* objective the smallest sequence number.
C13_BestFirst ==
    last.kind # "none"
        => \A j \in PendingBefore :
              /\ Own(heap[j].node).val[3] <= Own(heap[iterator].node).val[3]
              /\ (Own(heap[j].node).val[3] = Own(heap[iterator].node).val[3]
                     => heap[iterator].seq <= heap[j].seq)

\* C14: the priority of every heap entry is the optimum of the relaxation of
\* the node the entry holds.
C14_OwnPriority ==
    \A i \in 1 .. Len(heap) : heap[i].prio = Own(heap[i].node).val[3]

\* distance of x to the nearest integer
Dist(x) == LET r == x % D IN Min(r, D - r)

\* i is the variable the selection rule picks for the values v: not the last
\* one, at the greatest distance to an integer, the first one at that distance
Selects(v, i) ==
    /\ i \in 1 .. Len(v) - 1
    /\ Dist(v[i]) > 0
    /\ \A j \in 1 .. Len(v) - 1 : Dist(v[j]) <= Dist(v[i])
    /\ \A j \in 1 .. i - 1 : Dist(v[j]) < Dist(v[i])

\* C15: in every branching step on a node whose relaxation has a fractional
\* optimum, the variable branched on is the one the selection rule picks for
\* the optimum of that node's relaxation.
C15_Selection ==
    (last.kind = "branch" /\ ~ IsIntegral(Own(last.node).val))
        => Selects(Own(last.node).val, last.sel)

\* C16: no node is solved twice; the steps taken so far processed the first
\* `iterator` entries of the heap, each once and in list order, and no node is
\* in two entries; every node on the heap was solved; when bbsolve has
\* returned, every entry of the heap was processed.
C16_OnceEach ==
    /\ \A i, j \in 1 .. Len(solved) : i # j => solved[i] # solved[j]
    /\ \A i, j \in 1 .. Len(heap) : i # j => heap[i].node # heap[j].node
    /\ \A i \in 1 .. Len(heap) : \E k \in 1 .. Len(solved) : solved[k] = heap[i].node
    /\ pc \in {"loop", "done"}
          => /\ Len(trace) = iterator
             /\ iterator <= Len(heap)
             /\ \A i \in 1 .. Len(trace) : trace[i].node = heap[i].node
    /\ pc = "done" => Len(trace) = Len(heap)

\* bbsolve returned after it branched, pruned a child and processed every
\* entry of a heap of at least three
C16_Witness ==
    /\ pc = "done"
    /\ Len(heap) >= 3
    /\ Len(trace) = Len(heap)
    /\ Len(solved) > Len(heap)

\* k bounds the variable i alone: coefficient 1 on it, 0 on the others
IsBoundOn(k, i) ==
    /\ k.op \in {"le", "ge"}
    /\ k.cz = 0
    /\ k.cx = (IF i = 1 THEN 1 ELSE 0)
    /\ k.cy = (IF i = 2 THEN 1 ELSE 0)

\* child has the constraints of parent followed by one bound on variable i,
\* and the variable list and the objective of parent
ExtendsByOneBound(child, parent, i) ==
    /\ Len(child.cons) = Len(parent.cons) + 1
    /\ SubSeq(child.cons, 1, Len(parent.cons)) = parent.cons
    /\ IsBoundOn(child.cons[Len(child.cons)], i)
    /\ child.vars = parent.vars
    /\ child.objective = parent.objective

\* C17: after a branching step each child has the constraint sequence of the
\* branched node followed by one bound on the selected variable, and the
\* node's variable list and objective; the branched node is on the heap with
\* the constraints it had before the step, and a floor child that was pushed
\* is on the heap as it was built, whatever was added to the ceil child.
C17_CopyAppendOne ==
    last.kind = "branch"
        => /\ ExtendsByOneBound(last.lower, last.node, last.sel)
           /\ ExtendsByOneBound(last.upper, last.node, last.sel)
           /\ heap[iterator].node = last.node
           /\ Own(last.lower).ok => Count(heap, last.lower) = 1

\* a branching step on a node that is a child itself, both children pushed
C17_Witness ==
    /\ last.kind = "branch"
    /\ last.pushed = 2
    /\ Len(last.node.cons) > Len(RootConstraints(input))
    /\ heap[iterator].node = last.node

\* C18: after a branching step, a child whose relaxation has an optimum has a
\* relaxed objective no greater than that of the branched node.
C18_ChildBound ==
    last.kind = "branch"
        => \A child \in {last.lower, last.upper} :
              (Own(child).ok /\ Own(last.node).ok)
                  => Own(child).val[3] <= Own(last.node).val[3]

\* a branching step on a node that is a child itself, with a child whose
\* relaxed objective is strictly below the node's
C18_Witness ==
    /\ last.kind = "branch"
    /\ Len(last.node.cons) > Len(RootConstraints(input))
    /\ Own(last.node).ok
    /\ \E child \in {last.lower, last.upper} :
          Own(child).ok /\ Own(child).val[3] < Own(last.node).val[3]

\* C19: a step of the loop leaves every entry of the heap at its index, new
\* entries come after them; the sequence numbers strictly increase along the
\* list; the entries processed so far are the first ones of the list, in
\* order, none skipped and none twice.
C19_AppendOnly ==
    [][pc = "loop"
          => /\ Len(heap') >= Len(heap)
             /\ SubSeq(heap', 1, Len(heap)) = heap
             /\ \A i \in 1 .. Len(heap') - 1 : heap'[i].seq < heap'[i + 1].seq
             /\ Len(trace') = iterator'
             /\ \A i \in 1 .. Len(trace') : trace'[i].node = heap'[i].node]_vars

\* a step pushed two entries on a heap of at least three, the last one with
\* the last sequence number handed out, in a call after the first
C19_Witness ==
    /\ last.kind = "branch"
    /\ last.pushed = 2
    /\ Len(heap) >= 5
    /\ heap[Len(heap)].seq = counter - 1
    /\ heap[1].seq > 0

====
